---- MODULE Spec2Model ----
(***************************************************************************)
(* Model of the MCP HTTP gateway (mcp-gateway.py): a single-threaded       *)
(* http.server.HTTPServer whose handler MCPHandler bridges POST /mcp to    *)
(* the PostgreSQL function api.mcp_handle_request and answers GET /health. *)
(*                                                                         *)
(* Bytes are modelled as sequences of lexical symbols <<kind, text>>:      *)
(*   <<"p", "{">>  punctuation        <<"s", "id">>   a string literal     *)
(*   <<"n", "1">>  a number literal   <<"lit","null">> the literal null    *)
(*   <<"x", "FF">> a byte that is not valid UTF-8                          *)
(*   <<"html", m>> the HTML error page of send_error with message m        *)
(* Content-Length counts symbols.  JSON values (and the Python objects     *)
(* json.loads builds from them) are records [k, s, m]: k is the kind,      *)
(* s the text of a string or number, m the members of an object or list    *)
(* as a sequence of <<key, value>> pairs in insertion order.               *)
(***************************************************************************)
EXTENDS Integers, Sequences, FiniteSets, TLC

\* ------------------------------------------------------------------ bounds
NumClients == 2
MaxContentLength == 6

Clients == 1..NumClients

\* ------------------------------------------------------- JSON value model
JNull == [k |-> "null", s |-> "", m |-> <<>>]
JStr(x) == [k |-> "str", s |-> x, m |-> <<>>]
JNum(x) == [k |-> "num", s |-> x, m |-> <<>>]
JObj(members) == [k |-> "obj", s |-> "", m |-> members]
JList(items) == [k |-> "list", s |-> "", m |-> items]
\* a handler local that has not been assigned yet
Unset == [k |-> "unset", s |-> "", m |-> <<>>]

LBrace == <<"p", "{">>
RBrace == <<"p", "}">>
LBracket == <<"p", "[">>
RBracket == <<"p", "]">>
Colon == <<"p", ":">>
Comma == <<"p", ",">>
NullLit == <<"lit", "null">>
BadByte == <<"x", "FF">>

\* dict[key] = v : an existing key keeps its position, a new key is appended
DictSet(members, key, v) ==
    IF \E i \in 1..Len(members) : members[i][1] = key
    THEN [i \in 1..Len(members) |->
            IF members[i][1] = key THEN <<key, v>> ELSE members[i]]
    ELSE Append(members, <<key, v>>)

DictHas(members, key) == \E i \in 1..Len(members) : members[i][1] = key

\* dict.get(key) : the value, or None
DictGet(members, key) ==
    IF DictHas(members, key)
    THEN members[CHOOSE i \in 1..Len(members) : members[i][1] = key][2]
    ELSE JNull

ParseFail == [ok |-> FALSE, v |-> Unset, i |-> 0]
ParseOk(v, i) == [ok |-> TRUE, v |-> v, i |-> i]

RECURSIVE ParseValue(_, _)
RECURSIVE ParseMembers(_, _, _)
RECURSIVE ParseItems(_, _, _)

\* json.scanner: one JSON value starting at symbol i of b
ParseValue(b, i) ==
    IF i > Len(b) THEN ParseFail
    ELSE LET t == b[i] IN
         CASE t[1] = "s" -> ParseOk(JStr(t[2]), i + 1)
           [] t[1] = "n" -> ParseOk(JNum(t[2]), i + 1)
           [] t = NullLit -> ParseOk(JNull, i + 1)
           [] t = LBrace ->
                IF i + 1 <= Len(b) /\ b[i + 1] = RBrace
                THEN ParseOk(JObj(<<>>), i + 2)
                ELSE ParseMembers(b, i + 1, <<>>)
           [] t = LBracket ->
                IF i + 1 <= Len(b) /\ b[i + 1] = RBracket
                THEN ParseOk(JList(<<>>), i + 2)
                ELSE ParseItems(b, i + 1, <<>>)
           [] OTHER -> ParseFail

\* json.decoder.JSONObject: "key" : value { , "key" : value } }
ParseMembers(b, i, acc) ==
    IF i + 1 > Len(b) \/ b[i][1] # "s" \/ b[i + 1] # Colon THEN ParseFail
    ELSE LET r == ParseValue(b, i + 2) IN
         IF ~r.ok \/ r.i > Len(b) THEN ParseFail
         ELSE LET acc2 == DictSet(acc, b[i][2], r.v) IN
              CASE b[r.i] = RBrace -> ParseOk(JObj(acc2), r.i + 1)
                [] b[r.i] = Comma -> ParseMembers(b, r.i + 1, acc2)
                [] OTHER -> ParseFail

\* json.decoder.JSONArray: value { , value } ]
ParseItems(b, i, acc) ==
    LET r == ParseValue(b, i) IN
    IF ~r.ok \/ r.i > Len(b) THEN ParseFail
    ELSE LET acc2 == Append(acc, <<"", r.v>>) IN
         CASE b[r.i] = RBracket -> ParseOk(JList(acc2), r.i + 1)
           [] b[r.i] = Comma -> ParseItems(b, r.i + 1, acc2)
           [] OTHER -> ParseFail

\* json.loads(bytes): decode as UTF-8, then scan exactly one value.
\* exc is "" on success, else the class of the exception raised.
json_loads(b) ==
    IF \E i \in 1..Len(b) : b[i][1] = "x"
    THEN [exc |-> "UnicodeDecodeError", v |-> Unset]
    ELSE LET r == ParseValue(b, 1) IN
         IF r.ok /\ r.i = Len(b) + 1
         THEN [exc |-> "", v |-> r.v]
         ELSE [exc |-> "JSONDecodeError", v |-> Unset]

RECURSIVE json_dumps(_)
RECURSIVE DumpMembers(_, _, _)

\* the members of an object (keyed = TRUE) or list, from position i on
DumpMembers(members, i, keyed) ==
    IF i > Len(members) THEN <<>>
    ELSE (IF i > 1 THEN <<Comma>> ELSE <<>>)
         \o (IF keyed THEN <<<<"s", members[i][1]>>, Colon>> ELSE <<>>)
         \o json_dumps(members[i][2])
         \o DumpMembers(members, i + 1, keyed)

\* json.dumps(value), whitespace left out
json_dumps(v) ==
    CASE v.k = "null" -> <<NullLit>>
      [] v.k = "str" -> <<<<"s", v.s>>>>
      [] v.k = "num" -> <<<<"n", v.s>>>>
      [] v.k = "obj" -> <<LBrace>> \o DumpMembers(v.m, 1, TRUE) \o <<RBrace>>
      [] v.k = "list" -> <<LBracket>> \o DumpMembers(v.m, 1, FALSE) \o <<RBracket>>

\* ------------------------------------------------------ requests on the wire
Commands == {"GET", "POST", "PUT"}
Paths == {"/mcp", "/health", "/unknown"}

\* {"id":"42"}   {}   "42"   [null]   a byte that is not UTF-8   nothing
Payloads ==
    { <<LBrace, <<"s", "id">>, Colon, <<"s", "42">>, RBrace>>,
      <<LBrace, RBrace>>,
      <<<<"s", "42">>>>,
      <<LBracket, NullLit, RBracket>>,
      <<BadByte>>,
      <<>> }

\* values of a Content-Length header: decimal numbers and two malformed ones
ContentLengths == {ToString(n) : n \in 0..MaxContentLength} \cup {"-1", "abc"}
UserIds == {"", "u1"}
TenantIds == {"", "t1"}
\* a header the handler does not look at
ForwardedUsers == {"u2"}

\* every header block: each of the four headers is absent or has a value
HeaderBlocks ==
    LET Opt(name, values) == {<<>>} \cup {<<<<name, v>>>> : v \in values}
    IN { cl \o f \o u \o t : cl \in Opt("Content-Length", ContentLengths),
                             f \in Opt("X-Forwarded-User", ForwardedUsers),
                             u \in Opt("X-User-Id", UserIds),
                             t \in Opt("X-Tenant-Id", TenantIds) }

\* self.headers.get(name) is not None
HasHeader(hdrs, name) == DictHas(hdrs, name)
\* self.headers.get(name), for a header that is present
HeaderValue(hdrs, name) ==
    hdrs[CHOOSE i \in 1..Len(hdrs) : hdrs[i][1] = name][2]

\* int(text): the number, or ValueError (ok = FALSE)
int(text) ==
    IF text = "-1" THEN [ok |-> TRUE, n |-> -1]
    ELSE IF \E n \in 0..MaxContentLength : ToString(n) = text
    THEN [ok |-> TRUE, n |-> CHOOSE n \in 0..MaxContentLength : ToString(n) = text]
    ELSE [ok |-> FALSE, n |-> 0]

Take(seq, n) == SubSeq(seq, 1, IF n < Len(seq) THEN n ELSE Len(seq))

\* ------------------------------------------------------------- responses
NoException == [type |-> "", msg |-> ""]

send_json_response(status, data) ==
    [status |-> status, ctype |-> "application/json", body |-> json_dumps(data)]

\* BaseHTTPRequestHandler.send_error: an HTML page, no JSON
send_error(code, message) ==
    [status |-> code, ctype |-> "text/html;charset=utf-8",
     body |-> <<<<"html", message>>>>]

ParseErrorEnvelope ==
    JObj(<< <<"jsonrpc", JStr("2.0")>>,
            <<"id", JNull>>,
            <<"error", JObj(<< <<"code", JNum("-32700")>>,
                               <<"message", JStr("Parse error")>> >>)>> >>)

InternalErrorEnvelope(id, message) ==
    JObj(<< <<"jsonrpc", JStr("2.0")>>,
            <<"id", id>>,
            <<"error", JObj(<< <<"code", JNum("-32603")>>,
                               <<"message", JStr(message)>> >>)>> >>)

HealthPayload == JObj(<< <<"status", JStr("healthy")>> >>)

\* mutant of BuildContext: X-Forwarded-User stands in for a missing X-User-Id
BuildContext_forwarded(hdrs) ==
    LET c1 == IF HasHeader(hdrs, "X-User-Id") /\ HeaderValue(hdrs, "X-User-Id") # ""
              THEN DictSet(<<>>, "user_id", JStr(HeaderValue(hdrs, "X-User-Id")))
              ELSE IF HasHeader(hdrs, "X-Forwarded-User")
              THEN DictSet(<<>>, "user_id", JStr(HeaderValue(hdrs, "X-Forwarded-User")))
              ELSE <<>>
    IN IF HasHeader(hdrs, "X-Tenant-Id") /\ HeaderValue(hdrs, "X-Tenant-Id") # ""
       THEN DictSet(c1, "tenant_id", JStr(HeaderValue(hdrs, "X-Tenant-Id")))
       ELSE c1

\* mutant of BuildContext: a header counts as soon as it is present
BuildContext_presence(hdrs) ==
    LET c1 == IF HasHeader(hdrs, "X-User-Id")
              THEN DictSet(<<>>, "user_id", JStr(HeaderValue(hdrs, "X-User-Id")))
              ELSE <<>>
    IN IF HasHeader(hdrs, "X-Tenant-Id")
       THEN DictSet(c1, "tenant_id", JStr(HeaderValue(hdrs, "X-Tenant-Id")))
       ELSE c1

\* lines 112-116: the context dict built from the identity headers
BuildContext(hdrs) ==
    LET c1 == IF HasHeader(hdrs, "X-User-Id") /\ HeaderValue(hdrs, "X-User-Id") # ""
              THEN DictSet(<<>>, "user_id", JStr(HeaderValue(hdrs, "X-User-Id")))
              ELSE <<>>
    IN IF HasHeader(hdrs, "X-Tenant-Id") /\ HeaderValue(hdrs, "X-Tenant-Id") # ""
       THEN DictSet(c1, "tenant_id", JStr(HeaderValue(hdrs, "X-Tenant-Id")))
       ELSE c1

\* line 123: the two query parameters; null stands for SQL NULL (Python None)
NoText == [null |-> TRUE, text |-> <<>>]
SqlText(symbols) == [null |-> FALSE, text |-> symbols]
\* mutant of QueryArgs: the context is serialized whether empty or not
QueryArgs_always_object(req, ctx) ==
    <<SqlText(json_dumps(req)), SqlText(json_dumps(JObj(ctx)))>>

QueryArgs(req, ctx) ==
    <<SqlText(json_dumps(req)),
      IF ctx # <<>> THEN SqlText(json_dumps(JObj(ctx))) ELSE NoText>>

\* --------------------------------------------------------------- backend
ConnectErrors == {"connection refused"}
ExecuteErrors == {"function api.mcp_handle_request does not exist"}
\* what the dispatcher makes of a call: a result envelope echoing its inputs,
\* a JSON-RPC error envelope, or a NULL envelope
BackendModes == {"echo", "rpc_error", "null"}

\* api.mcp_handle_request(request, context).envelope
mcp_handle_request(args, mode) ==
    LET req == json_loads(args[1].text).v
        id == IF req.k = "obj" THEN DictGet(req.m, "id") ELSE JNull
        ctx == IF args[2].null THEN JNull ELSE json_loads(args[2].text).v
    IN CASE mode = "echo" ->
              JObj(<< <<"jsonrpc", JStr("2.0")>>, <<"id", id>>,
                      <<"result", JObj(<< <<"request", req>>,
                                          <<"context", ctx>> >>)>> >>)
         [] mode = "rpc_error" ->
              JObj(<< <<"jsonrpc", JStr("2.0")>>, <<"id", id>>,
                      <<"error", JObj(<< <<"code", JNum("-32601")>>,
                                         <<"message", JStr("Method not found")>> >>)>> >>)
         [] OTHER -> JNull

\* ----------------------------------------------------------------- state
VARIABLES
    clients,         \* client -> "idle" | "waiting" (connected, in the listen
                     \*           backlog) | "handling" (accepted by the server)
    backlog,         \* connections the server has not accepted yet, oldest first
    cur,             \* the client whose request the one handler thread serves; 0: none
    pc,              \* where that handler is
    command, path, headers,   \* the parsed request line and header block
    rfile, eof,      \* body symbols the client sent; has it closed its sending side
    content_length, body, request, context,   \* locals of do_POST
    conn,            \* the psycopg connection of this request; 0: none
    result, envelope,
    exc,             \* the exception in flight in the handler
    e,               \* the exception caught by "except Exception as e"
    wfile,           \* the responses written for this request
    backend,         \* "available" | "failing" (calls raise) | "unreachable"
    db_open,         \* connections open at the backend
    db_calls,        \* the backend's log of the api.mcp_handle_request calls
                     \* made for this request: arguments and outcome
    DATABASE_URL,    \* os.environ.get("DATABASE_URL"), read once at import
    server,          \* "starting" | "listening" | "exited"
    exit_status,     \* the status the process exited with
    sent             \* client -> the request it has put on its connection,
                     \*           where the model fixes it before it is accepted

reqvars == <<command, path, headers, rfile>>
locals == <<content_length, body, request, context, conn, result, envelope, e>>
netvars == <<clients, backlog>>
dbvars == <<backend, db_open, db_calls>>
procvars == <<DATABASE_URL, server, exit_status>>
vars == <<clients, backlog, cur, pc, command, path, headers, rfile, eof,
          content_length, body, request, context, conn, result, envelope,
          exc, e, wfile, backend, db_open, db_calls,
          DATABASE_URL, server, exit_status, sent>>

NoResult == "unset"

\* the handler's fields before it has looked at a request
Fresh ==
    /\ command = "" /\ path = "" /\ headers = <<>> /\ rfile = <<>>
    /\ eof = FALSE
    /\ content_length = 0 /\ body = <<>> /\ request = Unset /\ context = <<>>
    /\ conn = 0 /\ result = NoResult /\ envelope = Unset
    /\ exc = NoException /\ e = NoException /\ wfile = <<>> /\ db_calls = <<>>

BackendStates == {"available", "failing", "unreachable"}

\* os.environ.get("DATABASE_URL"): None, or the string the variable holds
NoUrl == [set |-> FALSE, value |-> ""]
DatabaseUrls ==
    {NoUrl, [set |-> TRUE, value |-> ""],
     [set |-> TRUE, value |-> "postgresql://postgres@localhost:5432/mydb"]}

\* a connection on which the model has not fixed the request
NoRequest == [command |-> "", path |-> "", headers |-> <<>>, rfile |-> <<>>]

Init ==
    /\ DATABASE_URL \in DatabaseUrls
    /\ server = "starting"
    /\ exit_status = 0
    /\ sent = [c \in Clients |-> NoRequest]
    /\ clients = [c \in Clients |-> "idle"]
    /\ backlog = <<>>
    /\ cur = 0
    /\ pc = "idle"
    /\ backend \in BackendStates
    /\ db_open = {}
    /\ Fresh

\* ------------------------------------------------------------- start-up
\* mutant of main: the listener is started without looking at DATABASE_URL
main_unchecked ==
    /\ server = "starting"
    /\ server' = "listening"
    /\ UNCHANGED <<netvars, cur, pc, reqvars, eof, locals, exc, wfile, dbvars,
                   DATABASE_URL, exit_status, sent>>

\* main(): exit(1) when DATABASE_URL is None or empty, else bind the listener
main ==
    /\ server = "starting"
    /\ IF ~DATABASE_URL.set \/ DATABASE_URL.value = ""
       THEN server' = "exited" /\ exit_status' = 1
       ELSE server' = "listening" /\ UNCHANGED exit_status
    /\ UNCHANGED <<netvars, cur, pc, reqvars, eof, locals, exc, wfile, dbvars,
                   DATABASE_URL, sent>>

\* --------------------------------------------------------------- clients
\* a client connects and sends one request
client_send(c) ==
    /\ server = "listening"
    /\ clients[c] = "idle"
    /\ clients' = [clients EXCEPT ![c] = "waiting"]
    /\ backlog' = Append(backlog, c)
    /\ UNCHANGED <<cur, pc, reqvars, eof, locals, exc, wfile, dbvars>>
    /\ UNCHANGED <<procvars, sent>>

\* header blocks and requests of the runs in which clients fix their request
\* when they connect
Hdr(cl, rest) == <<<<"Content-Length", cl>>>> \o rest
ConcRequests ==
    { [command |-> "POST", path |-> "/mcp",
       headers |-> Hdr("5", <<<<"X-User-Id", "u1">>>>),
       rfile |-> <<LBrace, <<"s", "id">>, Colon, <<"s", "42">>, RBrace>>],
      [command |-> "POST", path |-> "/mcp",
       headers |-> Hdr("2", <<<<"X-Tenant-Id", "t1">>>>),
       rfile |-> <<LBrace, RBrace>>],
      [command |-> "POST", path |-> "/mcp",
       headers |-> Hdr("3", <<<<"X-User-Id", "u1">>, <<"X-Tenant-Id", "t1">>>>),
       rfile |-> <<LBrace, RBrace>>],
      [command |-> "POST", path |-> "/mcp",
       headers |-> Hdr("1", <<>>),
       rfile |-> <<BadByte>>],
      [command |-> "POST", path |-> "/mcp",
       headers |-> Hdr("1", <<<<"X-Tenant-Id", "t1">>>>),
       rfile |-> <<<<"s", "42">>>>],
      [command |-> "GET", path |-> "/health", headers |-> <<>>, rfile |-> <<>>],
      [command |-> "PUT", path |-> "/mcp",
       headers |-> Hdr("2", <<>>),
       rfile |-> <<LBrace, RBrace>>] }

\* a client connects and sends one request, fixed from here on
client_send_request(c) ==
    /\ server = "listening"
    /\ clients[c] = "idle"
    /\ clients' = [clients EXCEPT ![c] = "waiting"]
    /\ backlog' = Append(backlog, c)
    /\ \E r \in ConcRequests : sent' = [sent EXCEPT ![c] = r]
    /\ UNCHANGED <<cur, pc, reqvars, eof, locals, exc, wfile, dbvars, procvars>>

\* the client closes its sending side while the server waits for body bytes
client_shutdown_write ==
    /\ pc = "read"
    /\ ~eof
    /\ (content_length < 0 \/ content_length > Len(rfile))
    /\ eof' = TRUE
    /\ UNCHANGED <<netvars, cur, pc, reqvars, locals, exc, wfile, dbvars>>
    /\ UNCHANGED <<procvars, sent>>

\* ------------------------------------------------------------ the server
\* mutant of serve_forever: the handler is given the request of the newest
\* connection in the backlog instead of that of the connection it accepted
serve_forever_crossed ==
    /\ server = "listening"
    /\ pc = "idle"
    /\ backlog # <<>>
    /\ cur' = Head(backlog)
    /\ backlog' = Tail(backlog)
    /\ clients' = [clients EXCEPT ![Head(backlog)] = "handling"]
    /\ IF sent[backlog[Len(backlog)]] = NoRequest
       THEN /\ command' \in Commands
            /\ path' \in Paths
            /\ headers' \in HeaderBlocks
            /\ rfile' \in Payloads
       ELSE /\ command' = sent[backlog[Len(backlog)]].command
            /\ path' = sent[backlog[Len(backlog)]].path
            /\ headers' = sent[backlog[Len(backlog)]].headers
            /\ rfile' = sent[backlog[Len(backlog)]].rfile
    /\ pc' = "request"
    /\ UNCHANGED <<eof, locals, exc, wfile, dbvars>>
    /\ UNCHANGED <<procvars, sent>>

\* mutant of serve_forever: a waiting GET /health is answered by a thread of
\* its own while the handler is busy
serve_forever_threaded ==
    \/ /\ server = "listening"
       /\ pc = "idle"
       /\ backlog # <<>>
       /\ cur' = Head(backlog)
       /\ backlog' = Tail(backlog)
       /\ clients' = [clients EXCEPT ![Head(backlog)] = "handling"]
       /\ IF sent[Head(backlog)] = NoRequest
          THEN /\ command' \in Commands
               /\ path' \in Paths
               /\ headers' \in HeaderBlocks
               /\ rfile' \in Payloads
          ELSE /\ command' = sent[Head(backlog)].command
               /\ path' = sent[Head(backlog)].path
               /\ headers' = sent[Head(backlog)].headers
               /\ rfile' = sent[Head(backlog)].rfile
       /\ pc' = "request"
       /\ UNCHANGED <<eof, locals, exc, wfile, dbvars>>
       /\ UNCHANGED <<procvars, sent>>
    \/ /\ pc # "idle"
       /\ backlog # <<>>
       /\ sent[Head(backlog)].command = "GET"
       /\ sent[Head(backlog)].path = "/health"
       /\ backlog' = Tail(backlog)
       /\ clients' = [clients EXCEPT ![Head(backlog)] = "idle"]
       /\ UNCHANGED <<cur, pc, reqvars, eof, locals, exc, wfile, dbvars>>
       /\ UNCHANGED <<procvars, sent>>

\* mutant of serve_forever: a connection is accepted while a dispatch call is
\* waiting for the backend
serve_forever_reentrant ==
    /\ server = "listening"
    /\ pc \in {"idle", "execute"}
    /\ backlog # <<>>
    /\ cur' = Head(backlog)
    /\ backlog' = Tail(backlog)
    /\ clients' = [clients EXCEPT ![Head(backlog)] = "handling"]
    /\ IF sent[Head(backlog)] = NoRequest
       THEN /\ command' \in Commands
            /\ path' \in Paths
            /\ headers' \in HeaderBlocks
            /\ rfile' \in Payloads
       ELSE /\ command' = sent[Head(backlog)].command
            /\ path' = sent[Head(backlog)].path
            /\ headers' = sent[Head(backlog)].headers
            /\ rfile' = sent[Head(backlog)].rfile
    /\ pc' = "request"
    /\ UNCHANGED <<eof, locals, exc, wfile, dbvars>>
    /\ UNCHANGED <<procvars, sent>>

\* serve_forever accepts the oldest connection; the handler parses the
\* request line and the headers (handle_one_request).  The request is the one
\* the client fixed when it connected, or is chosen here when it fixed none.
serve_forever ==
    /\ server = "listening"
    /\ pc = "idle"
    /\ backlog # <<>>
    /\ cur' = Head(backlog)
    /\ backlog' = Tail(backlog)
    /\ clients' = [clients EXCEPT ![Head(backlog)] = "handling"]
    /\ IF sent[Head(backlog)] = NoRequest
       THEN /\ command' \in Commands
            /\ path' \in Paths
            /\ headers' \in HeaderBlocks
            /\ rfile' \in Payloads
       ELSE /\ command' = sent[Head(backlog)].command
            /\ path' = sent[Head(backlog)].path
            /\ headers' = sent[Head(backlog)].headers
            /\ rfile' = sent[Head(backlog)].rfile
    /\ pc' = "request"
    /\ UNCHANGED <<eof, locals, exc, wfile, dbvars>>
    /\ UNCHANGED <<procvars, sent>>

\* handle_one_request: no do_<command> method on the handler
unsupported_method ==
    /\ pc = "request"
    /\ command \notin {"GET", "POST"}
    /\ wfile' = Append(wfile, send_error(501, "Unsupported method"))
    /\ pc' = "done"
    /\ UNCHANGED <<netvars, cur, reqvars, eof, locals, exc, dbvars>>
    /\ UNCHANGED <<procvars, sent>>

\* mutant of do_GET: the path is not looked at
do_GET_any_path ==
    /\ pc = "request"
    /\ command = "GET"
    /\ wfile' = Append(wfile, send_json_response(200, HealthPayload))
    /\ pc' = "done"
    /\ UNCHANGED <<netvars, cur, reqvars, eof, locals, exc, dbvars>>
    /\ UNCHANGED <<procvars, sent>>

\* mutant of do_GET: the health check reports the state of the backend
do_GET_backend_health ==
    /\ pc = "request"
    /\ command = "GET"
    /\ wfile' = Append(wfile,
                       IF path # "/health" THEN send_error(404, "Not Found")
                       ELSE IF backend = "unreachable"
                       THEN send_error(503, "Service Unavailable")
                       ELSE send_json_response(200, HealthPayload))
    /\ pc' = "done"
    /\ UNCHANGED <<netvars, cur, reqvars, eof, locals, exc, dbvars>>
    /\ UNCHANGED <<procvars, sent>>

do_GET ==
    /\ pc = "request"
    /\ command = "GET"
    /\ wfile' = Append(wfile,
                       IF path = "/health"
                       THEN send_json_response(200, HealthPayload)
                       ELSE send_error(404, "Not Found"))
    /\ pc' = "done"
    /\ UNCHANGED <<netvars, cur, reqvars, eof, locals, exc, dbvars>>
    /\ UNCHANGED <<procvars, sent>>

\* do_POST up to the read of the body: the route, then int(Content-Length)
do_POST ==
    /\ pc = "request"
    /\ command = "POST"
    /\ IF path # "/mcp"
       THEN /\ wfile' = Append(wfile, send_error(404, "Not Found"))
            /\ pc' = "done"
            /\ UNCHANGED <<content_length, exc>>
       ELSE LET n == IF HasHeader(headers, "Content-Length")
                     THEN int(HeaderValue(headers, "Content-Length"))
                     ELSE [ok |-> TRUE, n |-> 0]
            IN IF n.ok
               THEN /\ content_length' = n.n
                    /\ pc' = "read"
                    /\ UNCHANGED <<wfile, exc>>
               ELSE /\ exc' = [type |-> "ValueError", msg |-> "invalid literal for int()"]
                    /\ pc' = "done"
                    /\ UNCHANGED <<wfile, content_length>>
    /\ UNCHANGED <<netvars, cur, reqvars, eof, body, request, context, conn,
                   result, envelope, e, dbvars>>
    /\ UNCHANGED <<procvars, sent>>

\* mutant of do_POST_parse: the whole stream is read, whatever Content-Length
do_POST_parse_read_all ==
    /\ pc = "read"
    /\ \/ (content_length >= 0 /\ content_length <= Len(rfile))
       \/ eof
    /\ LET b == rfile
           r == json_loads(b)
       IN /\ body' = b
          /\ CASE r.exc = "JSONDecodeError" ->
                    /\ wfile' = Append(wfile, send_json_response(400, ParseErrorEnvelope))
                    /\ pc' = "done"
                    /\ UNCHANGED <<request, context, exc>>
               [] r.exc = "UnicodeDecodeError" ->
                    /\ exc' = [type |-> "UnicodeDecodeError", msg |-> "invalid start byte"]
                    /\ pc' = "done"
                    /\ UNCHANGED <<request, context, wfile>>
               [] OTHER ->
                    /\ request' = r.v
                    /\ context' = BuildContext(headers)
                    /\ pc' = "connect"
                    /\ UNCHANGED <<wfile, exc>>
    /\ UNCHANGED <<netvars, cur, reqvars, eof, content_length, conn, result,
                   envelope, e, dbvars>>
    /\ UNCHANGED <<procvars, sent>>

\* mutant of do_POST_parse: the return after the 400 response is missing
do_POST_parse_no_return ==
    /\ pc = "read"
    /\ \/ (content_length >= 0 /\ content_length <= Len(rfile))
       \/ eof
    /\ LET b == IF content_length < 0 THEN rfile ELSE Take(rfile, content_length)
           r == json_loads(b)
       IN /\ body' = b
          /\ CASE r.exc = "JSONDecodeError" ->
                    /\ wfile' = Append(wfile, send_json_response(400, ParseErrorEnvelope))
                    /\ context' = BuildContext(headers)
                    /\ pc' = "connect"
                    /\ UNCHANGED <<request, exc>>
               [] r.exc = "UnicodeDecodeError" ->
                    /\ exc' = [type |-> "UnicodeDecodeError", msg |-> "invalid start byte"]
                    /\ pc' = "done"
                    /\ UNCHANGED <<request, context, wfile>>
               [] OTHER ->
                    /\ request' = r.v
                    /\ context' = BuildContext(headers)
                    /\ pc' = "connect"
                    /\ UNCHANGED <<wfile, exc>>
    /\ UNCHANGED <<netvars, cur, reqvars, eof, content_length, conn, result,
                   envelope, e, dbvars>>
    /\ UNCHANGED <<procvars, sent>>

\* rfile.read(content_length) returns once that many symbols have come, or at
\* end of stream; then json.loads and the context (lines 98-116)
do_POST_parse ==
    /\ pc = "read"
    /\ \/ (content_length >= 0 /\ content_length <= Len(rfile))
       \/ eof
    /\ LET b == IF content_length < 0 THEN rfile ELSE Take(rfile, content_length)
           r == json_loads(b)
       IN /\ body' = b
          /\ CASE r.exc = "JSONDecodeError" ->
                    /\ wfile' = Append(wfile, send_json_response(400, ParseErrorEnvelope))
                    /\ pc' = "done"
                    /\ UNCHANGED <<request, context, exc>>
               [] r.exc = "UnicodeDecodeError" ->
                    /\ exc' = [type |-> "UnicodeDecodeError", msg |-> "invalid start byte"]
                    /\ pc' = "done"
                    /\ UNCHANGED <<request, context, wfile>>
               [] OTHER ->
                    /\ request' = r.v
                    /\ context' = BuildContext(headers)
                    /\ pc' = "connect"
                    /\ UNCHANGED <<wfile, exc>>
    /\ UNCHANGED <<netvars, cur, reqvars, eof, content_length, conn, result,
                   envelope, e, dbvars>>
    /\ UNCHANGED <<procvars, sent>>

\* one entry of the backend's call log: the arguments, the number of rows
\* returned, the envelope of the row, the error raised ("" when none)
Call(args, rows, row, error) ==
    [args |-> args, rows |-> rows, envelope |-> row, error |-> error]

\* a connection handle the backend has not in use
NewConn == CHOOSE n \in 1..(Cardinality(db_open) + 1) : n \notin db_open

\* psycopg.connect(DATABASE_URL): a connection, or an exception
psycopg_connect ==
    /\ pc = "connect"
    /\ IF backend # "unreachable"
       THEN /\ conn' = NewConn
            /\ db_open' = db_open \cup {NewConn}
            /\ pc' = "execute"
            /\ UNCHANGED exc
       ELSE /\ \E m \in ConnectErrors : exc' = [type |-> "OperationalError", msg |-> m]
            /\ pc' = "except"
            /\ UNCHANGED <<conn, db_open>>
    /\ UNCHANGED <<netvars, cur, reqvars, eof, content_length, body, request,
                   context, result, envelope, e, wfile, backend, db_calls>>
    /\ UNCHANGED <<procvars, sent>>

\* mutant of conn_execute: result[0] is taken without the guard, so that a
\* missing row raises
conn_execute_unguarded ==
    /\ pc = "execute"
    /\ LET args == QueryArgs(request, context) IN
       IF backend # "available"
       THEN \E m \in ExecuteErrors :
               /\ db_calls' = Append(db_calls, Call(args, 0, Unset, m))
               /\ exc' = [type |-> "DatabaseError", msg |-> m]
               /\ UNCHANGED <<result, envelope>>
       ELSE \/ \E mode \in BackendModes :
               LET row == mcp_handle_request(args, mode) IN
               /\ db_calls' = Append(db_calls, Call(args, 1, row, ""))
               /\ result' = "row"
               /\ envelope' = row
               /\ UNCHANGED exc
            \/ /\ db_calls' = Append(db_calls, Call(args, 0, Unset, ""))
               /\ result' = "none"
               /\ exc' = [type |-> "TypeError", msg |-> "'NoneType' object is not subscriptable"]
               /\ UNCHANGED envelope
    /\ pc' = "exit"
    /\ UNCHANGED <<netvars, cur, reqvars, eof, content_length, body, request,
                   context, conn, e, wfile, backend, db_open>>
    /\ UNCHANGED <<procvars, sent>>

\* conn.execute(...).fetchone() and the envelope taken from the row
\* (lines 121-125): the one round trip to api.mcp_handle_request
conn_execute ==
    /\ pc = "execute"
    /\ LET args == QueryArgs(request, context) IN
       IF backend # "available"
       THEN \E m \in ExecuteErrors :
               /\ db_calls' = Append(db_calls, Call(args, 0, Unset, m))
               /\ exc' = [type |-> "DatabaseError", msg |-> m]
               /\ UNCHANGED <<result, envelope>>
       ELSE \/ \E mode \in BackendModes :
               LET row == mcp_handle_request(args, mode) IN
               /\ db_calls' = Append(db_calls, Call(args, 1, row, ""))
               /\ result' = "row"
               /\ envelope' = row
               /\ UNCHANGED exc
            \/ /\ db_calls' = Append(db_calls, Call(args, 0, Unset, ""))
               /\ result' = "none"
               /\ envelope' = JNull
               /\ UNCHANGED exc
    /\ pc' = "exit"
    /\ UNCHANGED <<netvars, cur, reqvars, eof, content_length, body, request,
                   context, conn, e, wfile, backend, db_open>>
    /\ UNCHANGED <<procvars, sent>>

\* mutant of with_exit: the connection is closed on the success path only
with_exit_leak_on_error ==
    /\ pc = "exit"
    /\ db_open' = IF exc = NoException THEN db_open \ {conn} ELSE db_open
    /\ pc' = IF exc # NoException THEN "except" ELSE "respond"
    /\ UNCHANGED <<netvars, cur, reqvars, eof, locals, exc, wfile, backend, db_calls>>
    /\ UNCHANGED <<procvars, sent>>

\* leaving the with block closes the connection, with or without an exception
with_exit ==
    /\ pc = "exit"
    /\ db_open' = db_open \ {conn}
    /\ pc' = IF exc # NoException THEN "except" ELSE "respond"
    /\ UNCHANGED <<netvars, cur, reqvars, eof, locals, exc, wfile, backend, db_calls>>
    /\ UNCHANGED <<procvars, sent>>

\* mutant of except_handler: a failed query is sent once more before the
\* error is reported
except_handler_retry ==
    /\ pc = "except"
    /\ e' = exc
    /\ db_calls' = IF db_calls # <<>>
                   THEN Append(db_calls, db_calls[Len(db_calls)])
                   ELSE db_calls
    /\ IF request.k = "obj"
       THEN /\ wfile' = Append(wfile,
                  send_json_response(500,
                      InternalErrorEnvelope(DictGet(request.m, "id"), exc.msg)))
            /\ exc' = NoException
       ELSE /\ exc' = [type |-> "AttributeError", msg |-> "no attribute 'get'"]
            /\ UNCHANGED wfile
    /\ pc' = "done"
    /\ UNCHANGED <<netvars, cur, reqvars, eof, content_length, body, request,
                   context, conn, result, envelope, backend, db_open>>
    /\ UNCHANGED <<procvars, sent>>

\* except Exception as e (lines 126-132); request.get exists on a dict only
except_handler ==
    /\ pc = "except"
    /\ e' = exc
    /\ IF request.k = "obj"
       THEN /\ wfile' = Append(wfile,
                  send_json_response(500,
                      InternalErrorEnvelope(DictGet(request.m, "id"), exc.msg)))
            /\ exc' = NoException
       ELSE /\ exc' = [type |-> "AttributeError", msg |-> "no attribute 'get'"]
            /\ UNCHANGED wfile
    /\ pc' = "done"
    /\ UNCHANGED <<netvars, cur, reqvars, eof, content_length, body, request,
                   context, conn, result, envelope, dbvars>>
    /\ UNCHANGED <<procvars, sent>>

\* mutant of respond_envelope: the envelope is wrapped in a result object
respond_envelope_wrapped ==
    /\ pc = "respond"
    /\ wfile' = Append(wfile,
                       send_json_response(200, JObj(<< <<"result", envelope>> >>)))
    /\ pc' = "done"
    /\ UNCHANGED <<netvars, cur, reqvars, eof, locals, exc, dbvars>>
    /\ UNCHANGED <<procvars, sent>>

\* line 134
respond_envelope ==
    /\ pc = "respond"
    /\ wfile' = Append(wfile, send_json_response(200, envelope))
    /\ pc' = "done"
    /\ UNCHANGED <<netvars, cur, reqvars, eof, locals, exc, dbvars>>
    /\ UNCHANGED <<procvars, sent>>

\* the handler has returned or raised: the server closes the client's
\* connection (after handle_error, if it raised) and takes the next one
shutdown_request ==
    /\ pc = "done"
    /\ clients' = [clients EXCEPT ![cur] = "idle"]
    /\ cur' = 0
    /\ pc' = "idle"
    /\ command' = "" /\ path' = "" /\ headers' = <<>> /\ rfile' = <<>>
    /\ eof' = FALSE
    /\ content_length' = 0 /\ body' = <<>> /\ request' = Unset /\ context' = <<>>
    /\ conn' = 0 /\ result' = NoResult /\ envelope' = Unset
    /\ exc' = NoException /\ e' = NoException /\ wfile' = <<>>
    /\ db_calls' = <<>>
    /\ UNCHANGED <<backlog, backend, db_open>>
    /\ UNCHANGED <<procvars, sent>>

\* the backend goes down, starts failing or recovers, at any time
backend_changes ==
    /\ \E b \in BackendStates \ {backend} : backend' = b
    /\ UNCHANGED <<netvars, cur, pc, reqvars, eof, locals, exc, wfile, db_open,
                   db_calls>>
    /\ UNCHANGED <<procvars, sent>>

Next ==
    \/ main
    \/ \E c \in Clients : client_send(c)
    \/ client_shutdown_write
    \/ serve_forever
    \/ unsupported_method
    \/ do_GET
    \/ do_POST
    \/ do_POST_parse
    \/ psycopg_connect
    \/ conn_execute
    \/ with_exit
    \/ except_handler
    \/ respond_envelope
    \/ shutdown_request
    \/ backend_changes

Spec == Init /\ [][Next]_vars

\* the same server, with clients that fix their request when they connect
NextConc ==
    \/ main
    \/ \E c \in Clients : client_send_request(c)
    \/ client_shutdown_write
    \/ serve_forever
    \/ unsupported_method
    \/ do_GET
    \/ do_POST
    \/ do_POST_parse
    \/ psycopg_connect
    \/ conn_execute
    \/ with_exit
    \/ except_handler
    \/ respond_envelope
    \/ shutdown_request
    \/ backend_changes

SpecConc == Init /\ [][NextConc]_vars

\* every step of the server is taken once it can be, the backend answers every
\* connection attempt and every query, and a client whose announced body is
\* incomplete closes its sending side
Fairness ==
    /\ WF_vars(main)
    /\ WF_vars(serve_forever)
    /\ WF_vars(unsupported_method)
    /\ WF_vars(do_GET)
    /\ WF_vars(do_POST)
    /\ WF_vars(do_POST_parse)
    /\ WF_vars(psycopg_connect)
    /\ WF_vars(conn_execute)
    /\ WF_vars(with_exit)
    /\ WF_vars(except_handler)
    /\ WF_vars(respond_envelope)
    /\ WF_vars(shutdown_request)
    /\ WF_vars(client_shutdown_write)

FairSpec == Init /\ [][NextConc]_vars /\ Fairness

\* ------------------------------------------------------------ type check
TypeOK ==
    /\ cur \in 0..NumClients
    /\ pc \in {"idle", "request", "read", "connect", "execute", "exit",
               "except", "respond", "done"}
    /\ Len(wfile) <= 1
    /\ Cardinality(db_open) <= 1

\* ================================================================ claims
IsMcpPost == command = "POST" /\ path = "/mcp"
IsHealthGet == command = "GET" /\ path = "/health"

Present(hdrs, name) == HasHeader(hdrs, name) /\ HeaderValue(hdrs, name) # ""

\* the text of the context parameter the headers call for, spelled out
ExpectedContextArg(hdrs) ==
    LET u == Present(hdrs, "X-User-Id")
        t == Present(hdrs, "X-Tenant-Id")
        ukv == <<<<"s", "user_id">>, Colon, <<"s", HeaderValue(hdrs, "X-User-Id")>>>>
        tkv == <<<<"s", "tenant_id">>, Colon, <<"s", HeaderValue(hdrs, "X-Tenant-Id")>>>>
    IN CASE u /\ t -> SqlText(<<LBrace>> \o ukv \o <<Comma>> \o tkv \o <<RBrace>>)
         [] u /\ ~t -> SqlText(<<LBrace>> \o ukv \o <<RBrace>>)
         [] ~u /\ t -> SqlText(<<LBrace>> \o tkv \o <<RBrace>>)
         [] OTHER -> NoText

JsonResponse(status, text) ==
    [status |-> status, ctype |-> "application/json", body |-> text]

\* {"jsonrpc":"2.0","id":<id>,"error":{"code":<code>,"message":<message>}}
ErrorText(idText, code, message) ==
    <<LBrace, <<"s", "jsonrpc">>, Colon, <<"s", "2.0">>, Comma,
      <<"s", "id">>, Colon>> \o idText \o
    <<Comma, <<"s", "error">>, Colon,
      LBrace, <<"s", "code">>, Colon, <<"n", code>>, Comma,
      <<"s", "message">>, Colon, <<"s", message>>, RBrace, RBrace>>

\* the id member of the parsed request, null when it has none
RequestId == IF request.k = "obj" THEN DictGet(request.m, "id") ELSE JNull

\* C1: a POST /mcp with a well-formed body whose dispatch returned a row is
\* answered 200 with exactly the envelope the backend returned for the request
\* value and the context of its headers, whatever the headers and also when
\* the envelope encodes a JSON-RPC error.
C1_EnvelopeRelayed ==
    (pc = "done" /\ IsMcpPost /\ db_calls # <<>> /\ db_calls[1].rows = 1) =>
        /\ json_loads(body).exc = ""
        /\ db_calls[1].args =
              <<SqlText(json_dumps(json_loads(body).v)), ExpectedContextArg(headers)>>
        /\ wfile = <<JsonResponse(200, json_dumps(db_calls[1].envelope))>>

\* C1 witness: a JSON-RPC error envelope relayed with status 200, X-User-Id
\* given and X-Tenant-Id absent
C1_Witness ==
    /\ pc = "done" /\ IsMcpPost /\ db_calls # <<>> /\ db_calls[1].rows = 1
    /\ DictHas(db_calls[1].envelope.m, "error")
    /\ Present(headers, "X-User-Id") /\ ~HasHeader(headers, "X-Tenant-Id")
    /\ Len(wfile) = 1 /\ wfile[1].status = 200

\* C2: once the handling of a request has ended, exactly one response has
\* been written for it.
C2_ExactlyOneResponse == pc = "done" => Len(wfile) = 1

\* C3: a POST /mcp whose body is not well-formed JSON (syntax error or
\* malformed UTF-8) is answered 400 with the -32700 "Parse error" envelope
\* with id null.  (Requests whose Content-Length could not be read are left
\* out: their body is never read.)
C3_ParseError400 ==
    (pc = "done" /\ IsMcpPost /\ exc.type # "ValueError"
        /\ json_loads(body).exc # "") =>
        wfile = <<JsonResponse(400, ErrorText(<<NullLit>>, "-32700", "Parse error"))>>

\* C4: a POST /mcp whose body parsed and whose dispatch failed is answered
\* 500 with a -32603 envelope carrying the request's id (null when it has
\* none) and the failure's description.
C4_DispatchFailure500 ==
    (pc = "done" /\ IsMcpPost /\ request # Unset /\ e # NoException) =>
        wfile = <<JsonResponse(500,
                     ErrorText(json_dumps(RequestId), "-32603", e.msg))>>

\* C5: the connection a request acquired is closed before any part of its
\* response is written, after a successful and after a failed dispatch, and
\* none is open once the request is done.
C5_ReleasedBeforeResponse ==
    (wfile # <<>> \/ pc = "done") => (conn \notin db_open /\ db_open = {})

\* C5 witness: a dispatch that failed on an acquired connection, answered 500
C5_Witness ==
    /\ pc = "done" /\ conn # 0 /\ e # NoException
    /\ Len(wfile) = 1 /\ wfile[1].status = 500

\* C6 as stated: every POST /mcp that reaches the dispatch stage makes
\* exactly one call to the backend dispatch entry point.
C6_ExactlyOneCall ==
    (pc = "done" /\ IsMcpPost /\ request # Unset) => Len(db_calls) = 1

\* C6 amended: a request never makes more than one call to the dispatch entry
\* point; it has made exactly one when it ends after acquiring a connection,
\* and none when no connection could be acquired; a failed call is not retried.
C6_AtMostOneCall ==
    /\ Len(db_calls) <= 1
    /\ (pc = "done" /\ conn # 0) => Len(db_calls) = 1
    /\ conn = 0 => db_calls = <<>>

\* C6 witness: the one call failed, the request was answered 500
C6_Witness ==
    /\ pc = "done" /\ Len(db_calls) = 1 /\ db_calls[1].error # ""
    /\ Len(wfile) = 1 /\ wfile[1].status = 500

\* what C7 says of a request outside the two routes, with the status left open
Unrouted(status) ==
    /\ Len(wfile) = 1
    /\ wfile[1].status = status
    /\ wfile[1].ctype # "application/json"
    /\ json_loads(wfile[1].body).exc # ""
    /\ request = Unset /\ body = <<>>
    /\ conn = 0 /\ db_calls = <<>>

\* C7 as stated: every request that is neither POST /mcp nor GET /health, of
\* any method, is answered 404 without envelope, parsing or backend call.
C7_Always404 ==
    (pc = "done" /\ ~IsMcpPost /\ ~IsHealthGet) => Unrouted(404)

\* C7 amended: such a request is answered 404 when its method is GET or POST
\* and 501 when it is any other method; in both cases without a JSON-RPC
\* envelope, without parsing a body and without a backend call.
C7_Unrouted404or501 ==
    (pc = "done" /\ ~IsMcpPost /\ ~IsHealthGet) =>
        Unrouted(IF command \in {"GET", "POST"} THEN 404 ELSE 501)

\* C7 witness: PUT /mcp answered 501
C7_Witness ==
    /\ pc = "done" /\ command = "PUT" /\ path = "/mcp"
    /\ Len(wfile) = 1 /\ wfile[1].status = 501

\* C8: GET /health is answered 200 {"status":"healthy"} in every state of the
\* backend, and acquires no connection and makes no dispatch call.
C8_HealthAlways200 ==
    (pc = "done" /\ IsHealthGet) =>
        /\ wfile = <<JsonResponse(200,
                       <<LBrace, <<"s", "status">>, Colon, <<"s", "healthy">>, RBrace>>)>>
        /\ conn = 0 /\ db_open = {} /\ db_calls = <<>>

\* C8 witness: healthy reported while the backend is unreachable
C8_Witness ==
    /\ pc = "done" /\ IsHealthGet /\ backend = "unreachable"
    /\ Len(wfile) = 1 /\ wfile[1].status = 200

\* C9 as stated: a dispatch call that returns no row is answered 500 with a
\* -32603 envelope.
C9_NoRowIs500 ==
    (pc = "done" /\ result = "none") =>
        /\ Len(wfile) = 1
        /\ wfile[1].status = 500
        /\ json_loads(wfile[1].body).exc = ""
        /\ DictGet(DictGet(json_loads(wfile[1].body).v.m, "error").m, "code") = JNum("-32603")

\* C9 amended: a dispatch call that returns no row is answered 200 with the
\* JSON body null; no error envelope is built.
C9_NoRowIs200Null ==
    (pc = "done" /\ result = "none") =>
        /\ wfile = <<JsonResponse(200, <<NullLit>>)>>
        /\ e = NoException

\* C9 witness: a call that returned no row, answered
C9_Witness ==
    /\ pc = "done" /\ result = "none"
    /\ Len(db_calls) = 1 /\ db_calls[1].rows = 0 /\ db_calls[1].error = ""
    /\ Len(wfile) = 1

\* C10: the context has the key user_id exactly when X-User-Id is present and
\* non-empty, tenant_id exactly when X-Tenant-Id is; each key holds the
\* header's value; no entry is null or empty and there is no other key.
C10_ContextFromHeaders ==
    request # Unset =>
        /\ \A i \in 1..Len(context) : context[i][1] \in {"user_id", "tenant_id"}
        /\ \A i, j \in 1..Len(context) : context[i][1] = context[j][1] => i = j
        /\ DictHas(context, "user_id") <=> Present(headers, "X-User-Id")
        /\ DictHas(context, "tenant_id") <=> Present(headers, "X-Tenant-Id")
        /\ DictHas(context, "user_id") =>
              DictGet(context, "user_id") = JStr(HeaderValue(headers, "X-User-Id"))
        /\ DictHas(context, "tenant_id") =>
              DictGet(context, "tenant_id") = JStr(HeaderValue(headers, "X-Tenant-Id"))
        /\ \A i \in 1..Len(context) : context[i][2].k = "str" /\ context[i][2].s # ""

\* C10 witness: X-User-Id: u1 and an empty X-Tenant-Id give {"user_id":"u1"}
C10_Witness ==
    /\ request # Unset
    /\ HasHeader(headers, "X-User-Id") /\ HeaderValue(headers, "X-User-Id") = "u1"
    /\ HasHeader(headers, "X-Tenant-Id") /\ HeaderValue(headers, "X-Tenant-Id") = ""
    /\ context = << <<"user_id", JStr("u1")>> >>

\* C11: the context parameter of a dispatch call is the no-context marker
\* (NULL) exactly when the extracted context is empty, and otherwise the text
\* of a JSON object with at least one member; the empty object is never sent.
C11_NoContextMarker ==
    \A i \in 1..Len(db_calls) :
        LET arg == db_calls[i].args[2] IN
        /\ arg.null <=> context = <<>>
        /\ arg.null <=> (~Present(headers, "X-User-Id") /\ ~Present(headers, "X-Tenant-Id"))
        /\ ~arg.null =>
              /\ arg.text # <<LBrace, RBrace>>
              /\ json_loads(arg.text).exc = ""
              /\ json_loads(arg.text).v.k = "obj"
              /\ json_loads(arg.text).v.m = context
              /\ Len(context) >= 1

\* C11 witness: a call made with NULL for a request whose only identity
\* header is present but empty
C11_Witness ==
    /\ Len(db_calls) = 1 /\ db_calls[1].args[2].null
    /\ HasHeader(headers, "X-User-Id") /\ ~HasHeader(headers, "X-Tenant-Id")
    /\ context = <<>>

\* C13: a process started without DATABASE_URL exits with a non-zero status
\* before the listener is bound: it never listens, never accepts a connection
\* and never dispatches.
C13_NoUrlNoListener ==
    ~DATABASE_URL.set =>
        /\ server # "listening"
        /\ server = "exited" => exit_status # 0
        /\ backlog = <<>> /\ cur = 0 /\ pc = "idle"
        /\ \A c \in Clients : clients[c] = "idle"
        /\ db_open = {} /\ db_calls = <<>> /\ wfile = <<>>

\* C13 witness: the process has exited with status 1 for want of DATABASE_URL
C13_Witness == ~DATABASE_URL.set /\ server = "exited" /\ exit_status = 1

\* the handler is between the successful parse and its response
InDispatch == pc \in {"connect", "execute", "exit", "except", "respond"}

\* C14: a POST /mcp whose body failed to parse never reaches the dispatch
\* stage: no connection is acquired and no dispatch call is made for it; the
\* context is extracted and the dispatch made only after a successful parse,
\* the dispatch using the context extracted before it.
C14_ParseBeforeDispatch ==
    /\ (IsMcpPost /\ request = Unset) =>
          /\ context = <<>>
          /\ conn = 0 /\ db_open = {} /\ db_calls = <<>>
          /\ ~InDispatch
    /\ (InDispatch \/ context # <<>> \/ conn # 0 \/ db_calls # <<>>) =>
          /\ json_loads(body).exc = ""
          /\ request = json_loads(body).v
    /\ \A i \in 1..Len(db_calls) :
          db_calls[i].args[2] =
              IF context = <<>> THEN NoText ELSE SqlText(json_dumps(JObj(context)))
    /\ (pc = "done" /\ IsMcpPost /\ Len(wfile) = 1 /\ wfile[1].status = 400) =>
          (request = Unset /\ db_calls = <<>>)

\* C14 witness: a syntax error answered 400 while the backend was available
\* and the request carried an identity header; nothing was dispatched
C14_Witness ==
    /\ pc = "done" /\ IsMcpPost
    /\ json_loads(body).exc = "JSONDecodeError" /\ body # <<>>
    /\ Present(headers, "X-User-Id") /\ backend = "available"
    /\ Len(wfile) = 1 /\ wfile[1].status = 400
    /\ conn = 0 /\ db_calls = <<>> /\ context = <<>>

\* the recognized headers of a header block, the others dropped
Recognized(hdrs) ==
    SelectSeq(hdrs, LAMBDA h : h[1] \in {"X-User-Id", "X-Tenant-Id"})

\* C17: the (request, context) arguments of a dispatch call are those of the
\* request with the same body and the same X-User-Id and X-Tenant-Id and no
\* other header: headers off the recognized list do not influence them.
C17_UnrecognizedIgnored ==
    /\ request # Unset => context = BuildContext(Recognized(headers))
    /\ \A i \in 1..Len(db_calls) :
          db_calls[i].args =
              QueryArgs(json_loads(body).v, BuildContext(Recognized(headers)))

\* C17 witness: a call made for a request carrying X-Forwarded-User and no
\* X-User-Id: the context has no user_id
C17_Witness ==
    /\ Len(db_calls) = 1
    /\ HasHeader(headers, "X-Forwarded-User") /\ ~HasHeader(headers, "X-User-Id")
    /\ Present(headers, "X-Tenant-Id")
    /\ db_calls[1].args[2] =
          SqlText(<<LBrace, <<"s", "tenant_id">>, Colon, <<"s", "t1">>, RBrace>>)

\* the handler has read the body of a POST /mcp
BodyRead ==
    IsMcpPost /\ (InDispatch \/ (pc = "done" /\ exc.type # "ValueError"))

\* the value of the Content-Length header, 0 when it is absent
ContentLengthValue ==
    IF HasHeader(headers, "Content-Length")
    THEN int(HeaderValue(headers, "Content-Length")).n
    ELSE 0

OwnBody(r) ==
    LET n == IF HasHeader(r.headers, "Content-Length")
             THEN int(HeaderValue(r.headers, "Content-Length")).n
             ELSE 0
    IN IF n < 0 THEN r.rfile ELSE Take(r.rfile, n)
OwnRequest(r) == json_loads(OwnBody(r)).v
OwnArgs(r) ==
    <<SqlText(json_dumps(OwnRequest(r))), ExpectedContextArg(r.headers)>>
OwnId(r) ==
    IF OwnRequest(r).k = "obj" THEN DictGet(OwnRequest(r).m, "id") ELSE JNull

\* response w is made of request r and of what the backend returned for r
OwnResponse(w, r) ==
    \/ w.status \in {400, 404, 501}
    \/ /\ w.status = 200
       /\ r.command = "GET"
       /\ w.body = json_dumps(HealthPayload)
    \/ /\ w.status = 200
       /\ r.command = "POST" /\ r.path = "/mcp"
       /\ Len(db_calls) = 1
       /\ \/ /\ db_calls[1].rows = 1
             /\ w.body = json_dumps(db_calls[1].envelope)
             /\ \E mode \in BackendModes :
                   db_calls[1].envelope = mcp_handle_request(OwnArgs(r), mode)
          \/ /\ db_calls[1].rows = 0
             /\ w.body = <<NullLit>>
    \/ /\ w.status = 500
       /\ r.command = "POST" /\ r.path = "/mcp"
       /\ w.body = ErrorText(json_dumps(OwnId(r)), "-32603", e.msg)

\* C12: with several clients' requests pending at once, the request being
\* handled is processed from its own request line, headers and body only: the
\* parsed value, the arguments of the dispatch call and the response are those
\* of the request its client sent, and nothing of another client's request.
C12_OwnRequestOnly ==
    cur # 0 =>
        /\ command = sent[cur].command
        /\ path = sent[cur].path
        /\ headers = sent[cur].headers
        /\ rfile = sent[cur].rfile
        /\ request # Unset => request = OwnRequest(sent[cur])
        /\ \A i \in DOMAIN db_calls : db_calls[i].args = OwnArgs(sent[cur])
        /\ \A i \in DOMAIN wfile : OwnResponse(wfile[i], sent[cur])

\* C12 witness: a POST /mcp answered 200 with the backend's row while another
\* client waits with a POST /mcp of a different body and different headers
C12_Witness ==
    /\ pc = "done" /\ cur # 0 /\ IsMcpPost
    /\ Len(wfile) = 1 /\ wfile[1].status = 200
    /\ Len(db_calls) = 1 /\ db_calls[1].rows = 1
    /\ Present(headers, "X-User-Id")
    /\ \E c \in Clients \ {cur} :
          /\ clients[c] = "waiting"
          /\ sent[c].command = "POST" /\ sent[c].path = "/mcp"
          /\ OwnBody(sent[c]) # body
          /\ sent[c].headers # headers
          /\ json_loads(OwnBody(sent[c])).exc = ""

\* the clients whose request the server is handling
Handling == {c \in Clients : clients[c] = "handling"}
\* the dispatch call of the request in hand has started and not yet ended
DispatchInFlight == pc \in {"connect", "execute", "exit"}
WaitingMcpPost(c) ==
    /\ clients[c] = "waiting"
    /\ sent[c].command = "POST" /\ sent[c].path = "/mcp"
WaitingHealthGet(c) ==
    /\ clients[c] = "waiting"
    /\ sent[c].command = "GET" /\ sent[c].path = "/health"

\* C15 as stated: dispatch calls are not serialized, so that while one
\* POST /mcp is in its dispatch call the next waiting POST /mcp can be taken
\* up and reach its own.
C15_DispatchesOverlap ==
    (DispatchInFlight /\ backlog # <<>> /\ WaitingMcpPost(Head(backlog))) =>
        ENABLED serve_forever

\* C15: dispatch calls are serialized: at most one request is being handled,
\* no waiting request is taken up while a dispatch call is in flight, at most
\* one dispatch call is made per request in hand, and the only connection ever
\* open is the one the request in hand acquired for its own dispatch call,
\* closed when that call has ended.
C15_DispatchesSerialized ==
    /\ Cardinality(Handling) <= 1
    /\ DispatchInFlight => ~ENABLED serve_forever
    /\ DispatchInFlight => Handling = {cur}
    /\ Len(db_calls) <= 1
    /\ db_calls # <<>> => (cur # 0 /\ db_calls[1].args = OwnArgs(sent[cur]))
    /\ db_open \subseteq {conn}
    /\ db_open # {} => pc \in {"execute", "exit"}

\* C15 witness: a dispatch call in flight on its own connection while another
\* POST /mcp waits at the head of the backlog
C15_Witness ==
    /\ pc = "execute" /\ IsMcpPost /\ db_open = {conn}
    /\ backlog # <<>> /\ WaitingMcpPost(Head(backlog))

\* C16: every accepted request is eventually done with a response written,
\* the backend answering every connection attempt and query.
C16_EventuallyResponded ==
    \A c \in Clients :
        (clients[c] = "handling") ~> (cur = c /\ pc = "done" /\ Len(wfile) = 1)

C18_AtMostOne ==
    /\ Cardinality(Handling) <= 1
    /\ (cur # 0) <=> (pc # "idle")
    /\ cur # 0 => Handling = {cur}
    /\ cur = 0 => Handling = {}
    /\ Cardinality(db_open) <= 1
    /\ Len(wfile) <= 1
C18_StaysWaiting ==
    /\ \A c \in Clients :
          (WaitingHealthGet(c) /\ pc # "idle") => clients'[c] = "waiting"
    /\ wfile' # wfile /\ wfile' # <<>> => (cur # 0 /\ cur' = cur /\ clients[cur] = "handling")

\* C18: the server handles one request at a time: at most one request is in
\* hand and at most one connection is open, in every state; and in every step
\* taken while a request is in hand, a GET /health that is waiting stays
\* waiting, every response written being that of the request in hand.
C18_OneAtATime == [](C18_AtMostOne) /\ [][C18_StaysWaiting]_vars

\* C18 witness: a GET /health waits while a dispatch call is in flight
C18_Witness ==
    /\ pc = "execute" /\ IsMcpPost /\ Cardinality(db_open) = 1
    /\ \E c \in Clients \ {cur} : WaitingHealthGet(c)

====
